---- MODULE Spec2Model ----
(***************************************************************************)
(* A model of the PathoSysPreprocess operator                              *)
(* (src/patho_sys_preprocess/process.py): the execute pipeline (validate,  *)
(* read two CSV tables, inner join, filter, rewrite paths, upload in       *)
(* batches, rewrite the descriptor) and its public helper methods          *)
(* transform_path, data_processing and insert_into_dataset.                *)
(*                                                                         *)
(* Python values.  A str is a sequence of one-character strings            *)
(* (<<"a", ".", "c", "s", "v">> is 'a.csv').  None, NaN and a value that   *)
(* is not a str are one-element sequences whose element has several        *)
(* characters, so that they differ from every str.                         *)
(*                                                                         *)
(* A DataFrame is [columns |-> set of column names, rows |-> sequence of   *)
(* rows], a row being a function from the column names to cells.           *)
(***************************************************************************)
EXTENDS Naturals, Integers, Sequences, FiniteSets, TLC

---------------------------------------------------------------------------
(* Bounds of the input spaces.                                             *)

\* longest pathTransformer enumerated character by character
MaxRuleLen == 3
\* longest known_path enumerated character by character
MaxPathLen == 3
\* most rows of a table handed directly to data_processing
MaxProcRows == 2
\* most rows of a diagnosis CSV file
MaxDiagRows == 1
\* most rows of a slide CSV file
MaxSlideRows == 2
\* most rows of a slide CSV file read by one of two concurrent runs
MaxConcRows == 2
\* most rows of a table handed directly to insert_into_dataset
MaxRows == 2001

---------------------------------------------------------------------------
(* Python values that are not str.                                         *)

None == <<"None">>
NaN == <<"NaN">>
\* some truthy value that is not a str (an int, say)
NotAStr == <<"int">>

IsStr(v) == v \notin {None, NaN, NotAStr}

\* bool(v) of Python for the values above: None, NaN aside, '' is falsy.
Truthy(v) == v # None /\ v # <<>>

\* pandas.notna / Series.notna
notna(v) == v # NaN /\ v # None

---------------------------------------------------------------------------
(* str operations.                                                         *)

StartsWith(s, pre) ==
    /\ Len(pre) <= Len(s)
    /\ SubSeq(s, 1, Len(pre)) = pre

EndsWith(s, suf) ==
    /\ Len(suf) <= Len(s)
    /\ SubSeq(s, Len(s) - Len(suf) + 1, Len(s)) = suf

\* 1-based index of the first occurrence of sub in s, 0 when there is none
\* (str.find, plus one).
IndexOf(s, sub) ==
    LET hits == {i \in 1..(Len(s) + 1) :
                    /\ i + Len(sub) - 1 <= Len(s)
                    /\ SubSeq(s, i, i + Len(sub) - 1) = sub}
    IN IF hits = {} THEN 0 ELSE CHOOSE i \in hits : \A j \in hits : i <= j

Contains(s, sub) == IndexOf(s, sub) # 0

\* s.replace(old, new, 1)
ReplaceFirst(s, old, new) ==
    LET i == IndexOf(s, old)
    IN IF i = 0 THEN s
       ELSE SubSeq(s, 1, i - 1) \o new \o SubSeq(s, i + Len(old), Len(s))

\* s.split(sep, 1) for an s that contains sep
SplitFirst(s, sep) ==
    LET i == IndexOf(s, sep)
    IN <<SubSeq(s, 1, i - 1), SubSeq(s, i + Len(sep), Len(s))>>

\* the characters str.isspace() is true of: space, tab, newline, carriage
\* return, form feed, and, written by their code points, vertical tab, the
\* separators FS GS RS US, NEL, no-break space and the Unicode spaces
Whitespace ==
    {" ", "\t", "\n", "\r", "\f", "U+000B", "U+001C", "U+001D", "U+001E", "U+001F",
     "U+0085", "U+00A0", "U+1680", "U+2000", "U+2001", "U+2002", "U+2003",
     "U+2004", "U+2005", "U+2006", "U+2007", "U+2008", "U+2009", "U+200A",
     "U+2028", "U+2029", "U+202F", "U+205F", "U+3000"}

RECURSIVE LStrip(_)
LStrip(s) == IF s # <<>> /\ Head(s) \in Whitespace THEN LStrip(Tail(s)) ELSE s

RECURSIVE RStrip(_)
RStrip(s) ==
    IF s # <<>> /\ s[Len(s)] \in Whitespace
    THEN RStrip(SubSeq(s, 1, Len(s) - 1)) ELSE s

\* s.strip()
Strip(s) == RStrip(LStrip(s))

\* s.split(sep) for a one-character sep: the pieces between the separators
RECURSIVE Split(_, _)
Split(s, sep) ==
    LET i == IndexOf(s, <<sep>>)
    IN IF i = 0 THEN <<s>>
       ELSE <<SubSeq(s, 1, i - 1)>> \o Split(SubSeq(s, i + 1, Len(s)), sep)

\* sep.join(parts)
RECURSIVE Join(_, _)
Join(parts, sep) ==
    IF parts = <<>> THEN <<>>
    ELSE IF Len(parts) = 1 THEN parts[1]
    ELSE parts[1] \o <<sep>> \o Join(Tail(parts), sep)

RECURSIVE SelectParts(_)
SelectParts(parts) ==
    IF parts = <<>> THEN <<>>
    ELSE IF Head(parts) = <<>> \/ Head(parts) = <<".">>
         THEN SelectParts(Tail(parts))
         ELSE <<Head(parts)>> \o SelectParts(Tail(parts))

---------------------------------------------------------------------------
(* pathlib.Path on POSIX.  A Path is [root, parts]: root is '', '/' or     *)
(* '//', parts are the components, without the empty and the '.' ones.     *)

RECURSIVE LeadingSlashes(_)
LeadingSlashes(s) ==
    IF s # <<>> /\ Head(s) = "/" THEN 1 + LeadingSlashes(Tail(s)) ELSE 0

\* Path(s)
Path(s) ==
    LET n == LeadingSlashes(s)
    IN [root  |-> IF n = 0 THEN <<>>
                  ELSE IF n = 2 THEN <<"/", "/">> ELSE <<"/">>,
        parts |-> SelectParts(Split(SubSeq(s, n + 1, Len(s)), "/"))]

\* str(p)
PathStr(p) ==
    IF p.root = <<>> /\ p.parts = <<>> THEN <<".">>
    ELSE p.root \o Join(p.parts, "/")

\* p.is_absolute()
is_absolute(p) == p.root # <<>>

\* p.relative_to(p.anchor)
relative_to_anchor(p) == [root |-> <<>>, parts |-> p.parts]

\* a / b
PathJoin(a, b) ==
    IF b.root # <<>> THEN b
    ELSE [root |-> a.root, parts |-> a.parts \o b.parts]

---------------------------------------------------------------------------
(* String constants of the program and of its inputs.                      *)

\* kwargs.get('pathTransformer', '/mnt/ruipath/hospital_data/')
DefaultPathTransformer == <<"/", "m", "n", "t", "/", "r", "u", "i", "p", "a", "t", "h", "/", "h", "o", "s", "p", "i", "t", "a", "l", "_", "d", "a", "t", "a", "/">>
\* the "keep unchanged" value of the constructor's comment: "<>"
KeepMarker == <<"<", ">">>
\* the prefix rule of the constructor's comment
ExamplePrefixRule == <<"s", "t", "o", "r", "a", "g", "e", "/", ":", "/", "m", "n", "t", "/", "r", "u", "i", "p", "a", "t", "h", "/", "h", "o", "s", "p", "i", "t", "a", "l", "_", "d", "a", "t", "a", "/">>
DotSdpc == <<".", "s", "d", "p", "c">>
DotCsv == <<".", "c", "s", "v">>
OutName == <<"c", "a", "s", "e", "_", "d", "i", "a", "g", "n", "o", "s", "i", "s", "_", "s", "l", "i", "d", "e", "s", ".", "j", "s", "o", "n">>
Json == <<"j", "s", "o", "n">>

\* paths found in the slide table
SvsPath == <<"a", ".", "s", "v", "s">>
SdpcPath == <<"b", ".", "s", "d", "p", "c">>
SdpcDir == <<"c", ".", "s", "d", "p", "c", "/">>
StoragePath == <<"s", "t", "o", "r", "a", "g", "e", "/", "d", ".", "s", "v", "s">>
AbsPath == <<"/", "x", "/", "e", ".", "s", "v", "s">>
ThumbPng == <<"t", ".", "p", "n", "g">>

\* fields of the descriptors handed to execute
CsvFilePath == <<"/", "i", "n", "/", "d", "i", "a", "g", "n", "o", "s", "i", "s", ".", "c", "s", "v">>
TxtFilePath == <<"/", "i", "n", "/", "d", "i", "a", "g", "n", "o", "s", "i", "s", ".", "t", "x", "t">>
OutPath == <<"/", "d", "a", "t", "a", "/", "o", "u", "t">>
DiagName == <<"d", "i", "a", "g", "n", "o", "s", "i", "s", ".", "c", "s", "v">>
Csv == <<"c", "s", "v">>

---------------------------------------------------------------------------
(* PathoSysPreprocess.__init__                                             *)

\* self.path_transformer = Path(kwargs.get('pathTransformer', default))
init_path_transformer(kw) ==
    Path(IF kw.pathTransformer = None THEN DefaultPathTransformer
         ELSE kw.pathTransformer)

\* self.ignore_sdpc = kwargs.get('ignoreSdpc', False)
init_ignore_sdpc(kw) == kw.ignoreSdpc

---------------------------------------------------------------------------
(* PathoSysPreprocess.transform_path                                       *)

transform_path(path_transformer, known_path) ==
    LET transform_rule == PathStr(path_transformer)
    IN IF Strip(transform_rule) = <<>> THEN known_path
       ELSE LET known_p == Path(known_path)
            IN IF Contains(transform_rule, <<":">>)
               THEN LET sp == SplitFirst(transform_rule, <<":">>)
                        old_prefix == sp[1]
                        new_prefix == sp[2]
                        path_str == PathStr(known_p)
                    IN IF StartsWith(path_str, old_prefix)
                       THEN PathStr(Path(ReplaceFirst(path_str, old_prefix, new_prefix)))
                       ELSE known_path
               ELSE LET new_parent == Path(transform_rule)
                    IN PathStr(IF is_absolute(known_p)
                               THEN PathJoin(new_parent, relative_to_anchor(known_p))
                               ELSE PathJoin(new_parent, known_p))

---------------------------------------------------------------------------
(* DataFrames.  [columns, index, rows]: index holds the row labels (a      *)
(* filter keeps the labels of the rows it keeps), rows the rows, each a    *)
(* function from the column names to cells.  A cell is a str or NaN.       *)
(* floats holds the columns whose dtype is float64: those made of NaN      *)
(* alone when the table was built; every other column is object.           *)

\* the positions at which a boolean mask is true, ascending
RECURSIVE KeptPositions(_, _)
KeptPositions(mask, i) ==
    IF i > Len(mask) THEN <<>>
    ELSE (IF mask[i] THEN <<i>> ELSE <<>>) \o KeptPositions(mask, i + 1)

\* df[mask]: the rows the mask keeps, with their labels
SelectRows(df, mask) ==
    LET ks == KeptPositions(mask, 1)
    IN [columns |-> df.columns,
        floats  |-> df.floats,
        index   |-> [k \in 1..Len(ks) |-> df.index[ks[k]]],
        rows    |-> [k \in 1..Len(ks) |-> df.rows[ks[k]]]]

\* pd.read_csv of a readable file [columns, rows]: an empty field is NaN,
\* a column of empty fields alone is float64, the labels are 0..n-1.
read_csv(file) ==
    [columns |-> file.columns,
     floats  |-> {c \in file.columns :
                    /\ file.rows # <<>>
                    /\ \A k \in 1..Len(file.rows) : file.rows[k][c] = <<>>},
     index   |-> [k \in 1..Len(file.rows) |-> k - 1],
     rows    |-> [k \in 1..Len(file.rows) |->
                    [c \in file.columns |->
                        IF file.rows[k][c] = <<>> THEN NaN ELSE file.rows[k][c]]]]

Digits == {"0", "1", "2", "3", "4", "5", "6", "7", "8", "9"}

\* the dtype read_csv infers for the case_no column: int64 when every field
\* is an integer literal, object otherwise (and for a column with no row)
KeyDtype(df) ==
    IF df.rows # <<>>
       /\ \A k \in 1..Len(df.rows) :
            LET v == df.rows[k]["case_no"]
            IN v # NaN /\ v # <<>> /\ \A i \in 1..Len(v) : v[i] \in Digits
    THEN "int64" ELSE "object"

\* pd.merge raises ValueError for an int64 key against an object key holding
\* str, unless one of the two columns has no row
MergeRaises(left, right) ==
    /\ left.rows # <<>>
    /\ right.rows # <<>>
    /\ KeyDtype(left) # KeyDtype(right)

RECURSIVE MergedRows(_, _, _)
MergedRows(left, right, i) ==
    IF i > Len(left.rows) THEN <<>>
    ELSE LET l == left.rows[i]
             ms == SelectSeq(right.rows, LAMBDA r : r["case_no"] = l["case_no"])
         IN [k \in 1..Len(ms) |->
                [c \in left.columns \cup right.columns |->
                    IF c \in left.columns THEN l[c] ELSE ms[k][c]]]
            \o MergedRows(left, right, i + 1)

\* pd.merge(left, right, on="case_no", how="inner"), for two tables that
\* share no column but case_no and whose keys have the same dtype: the rows
\* in the order of the left keys, labelled 0..n-1
merge(left, right) ==
    LET rs == MergedRows(left, right, 1)
    IN [columns |-> left.columns \cup right.columns,
        floats  |-> left.floats \cup right.floats,
        index   |-> [k \in 1..Len(rs) |-> k - 1],
        rows    |-> rs]

\* df.to_json(orient="records"): one object per row, NaN written as null
JsonNull == <<"null">>

to_json(df) ==
    [k \in 1..Len(df.rows) |->
        [c \in df.columns |->
            IF df.rows[k][c] = NaN THEN JsonNull ELSE df.rows[k][c]]]

---------------------------------------------------------------------------
(* PathoSysPreprocess.data_processing                                      *)

\* line 148: slide_path.notna() & (slide_path != "")
has_slide_path(row) == notna(row["slide_path"]) /\ row["slide_path"] # <<>>

\* the SDPC rule with every SDPC row dropped, whatever the flag
keeps_no_sdpc(ignore_sdpc, row) == ~EndsWith(row["slide_path"], DotSdpc)

\* lines 152-156: the SDPC rule keeps the row
keeps_sdpc(ignore_sdpc, row) ==
    IF ignore_sdpc
    THEN ~EndsWith(row["slide_path"], DotSdpc)
    ELSE ~(/\ EndsWith(row["slide_path"], DotSdpc)
           /\ (~notna(row["thumbnail_path"]) \/ row["thumbnail_path"] = <<>>))

\* lines 160-165: the row with both paths rewritten
rewrite_row(path_transformer, row) ==
    [c \in DOMAIN row \cup {"thumbnail_path"} |->
        IF c = "slide_path" THEN transform_path(path_transformer, row["slide_path"])
        ELSE IF c = "thumbnail_path"
             THEN IF notna(row["thumbnail_path"])
                  THEN transform_path(path_transformer, row["thumbnail_path"])
                  ELSE <<>>
             ELSE row[c]]

\* extra_filters
extra_filters(df) == df

Raised(exc) == [raised |-> TRUE, exc |-> exc]
Returned(v) == [raised |-> FALSE, value |-> v]

\* data_processing(df): Returned(the processed table) or Raised(exception).
\* With no row left, DataFrame.apply(..., result_type='expand') gives back a
\* copy of the empty table, and assigning it to the two columns raises
\* ValueError unless the table has exactly two columns.  On a float64
\* slide_path column .str raises AttributeError (lines 153 and 155), before
\* line 156 looks thumbnail_path up.
data_processing(ignore_sdpc, path_transformer, df) ==
    IF "slide_path" \notin df.columns THEN Raised("KeyError")
    ELSE IF "slide_path" \in df.floats THEN Raised("AttributeError")
    ELSE IF ~ignore_sdpc /\ "thumbnail_path" \notin df.columns
    THEN Raised("KeyError")
    ELSE LET valid == SelectRows(df, [k \in 1..Len(df.rows) |->
                                        has_slide_path(df.rows[k])])
             kept  == SelectRows(valid, [k \in 1..Len(valid.rows) |->
                                        keeps_sdpc(ignore_sdpc, valid.rows[k])])
         IN IF kept.rows = <<>>
            THEN IF Cardinality(kept.columns) = 2
                 THEN Returned(extra_filters(
                        [kept EXCEPT !.columns = @ \cup {"thumbnail_path"}]))
                 ELSE Raised("ValueError")
            ELSE IF "thumbnail_path" \notin kept.columns THEN Raised("KeyError")
            ELSE Returned(extra_filters(
                   [kept EXCEPT !.rows =
                       [k \in 1..Len(kept.rows) |->
                           rewrite_row(path_transformer, kept.rows[k])]]))

---------------------------------------------------------------------------
(* State.                                                                  *)

\* operator instances, and calls of their public methods
Insts == {"op1", "op2"}
Calls == {"c1", "c2"}

VARIABLES
    kwargs,            \* per instance: Mapper.kwargs, the constructor's options
    path_transformer,  \* per instance: self.path_transformer (a Path)
    ignore_sdpc,       \* per instance: self.ignore_sdpc
    disk,              \* which directory contents a read may find (see Files)
    call,              \* per call: [method, inst, arg], as the caller made it
    pc,                \* per call: where it is
    sample,            \* per call of execute: the descriptor object
    diagnosis_df,      \* per call: locals of execute
    slide_info_df,
    merged_df,
    upload_df,         \* per call: merged_df of insert_into_dataset
    start_idx,         \* per call: loop variable of insert_into_dataset
    posts,             \* per call: the calls of httpx.post made, in order
    errors,            \* per call: number of logger.error lines written
    ret                \* per call: what the caller gets

vars == <<kwargs, path_transformer, ignore_sdpc, disk, call, pc, sample,
          diagnosis_df, slide_info_df, merged_df, upload_df, start_idx,
          posts, errors, ret>>

self_vars == <<kwargs, path_transformer, ignore_sdpc>>
frame_vars == <<diagnosis_df, slide_info_df, merged_df>>
upload_vars == <<upload_df, start_idx, posts>>

\* BATCH_SIZE of insert_into_dataset
BATCH_SIZE == 1000

NoFrame == [columns |-> {}, floats |-> {}, index |-> <<>>, rows |-> <<>>]
NoUpload == [n |-> 0, unencodable |-> {}, thumb_unencodable |-> {}]
NoSample == [filePath |-> None, export_path |-> None, text |-> None,
             fileName |-> None, fileType |-> None]
NoRet == [raised |-> FALSE, value |-> None]

\* what insert_into_dataset reads of a table: its length, the rows with a
\* cell json cannot encode, and those of them where that cell is
\* thumbnail_path.  Every cell read from a CSV file is a str, a number or NaN.
describe(df) ==
    [n |-> Len(df.rows), unencodable |-> {}, thumb_unencodable |-> {}]

Terminal == {"Done", "Aborted", "Raised", "Returned"}

---------------------------------------------------------------------------
(* The files execute reads.                                                *)

SeqsUpTo(S, n) == UNION {[1..k -> S] : k \in 0..n}


\* the fields a CSV file may hold in each column ('' is an empty field)
ColDomain ==
    [case_no        |-> {<<"1">>, <<"A">>},
     diagnosis      |-> {<<"d">>},
     slide_path     |-> {<<>>, SvsPath, SdpcPath},
     thumbnail_path |-> {<<>>, ThumbPng}]

RowsOver(cols, dom) ==
    {r \in [cols -> UNION {dom[col] : col \in cols}] :
        \A col \in cols : r[col] \in dom[col]}

NoFile == [kind |-> "missing", columns |-> {}, rows |-> <<>>]
Unparseable == [kind |-> "unparseable", columns |-> {}, rows |-> <<>>]
CsvFile(cols, rows) == [kind |-> "csv", columns |-> cols, rows |-> rows]

DiagFiles ==
    {NoFile, Unparseable}
        \cup UNION {{CsvFile(cols, rows) :
                        rows \in SeqsUpTo(RowsOver(cols, ColDomain), MaxDiagRows)} :
                    cols \in {{"case_no"}, {"case_no", "diagnosis"}}}

SlideColumnSets ==
    {{"case_no"}, {"case_no", "slide_path"},
     {"case_no", "slide_path", "thumbnail_path"}}

SlideFiles ==
    {Unparseable}
        \cup UNION {{CsvFile(cols, rows) :
                        rows \in SeqsUpTo(RowsOver(cols, ColDomain), MaxSlideRows)} :
                    cols \in SlideColumnSets}

\* the directory of the diagnosis file: the file itself, and what
\* os.listdir names besides it
Disk == [diagnosis |-> DiagFiles,
         listings  |-> {{}} \cup {{f} : f \in SlideFiles}]

NoDisk == [diagnosis |-> {}, listings |-> {}]

\* a well-formed directory: a diagnosis file and one slide file with paths
ConcDisk ==
    [diagnosis |-> {CsvFile({"case_no", "diagnosis"},
                            <<[case_no |-> <<"1">>, diagnosis |-> <<"d">>]>>)},
     listings  |-> {{f} : f \in {g \in SlideFiles :
                        /\ g.kind = "csv"
                        /\ "slide_path" \in g.columns
                        /\ Len(g.rows) <= MaxConcRows
                        /\ \A k \in 1..Len(g.rows) :
                             /\ g.rows[k]["case_no"] = <<"1">>
                             /\ g.rows[k]["slide_path"] # <<>>
                             /\ "thumbnail_path" \in g.columns =>
                                   g.rows[k]["thumbnail_path"] # <<>>}}]

\* the contents the variable disk stands for
Files(d) ==
    CASE d = "any" -> Disk
      [] d = "well_formed" -> ConcDisk
      [] OTHER -> NoDisk

---------------------------------------------------------------------------
(* execute, lines 56-66: the descriptor is checked.                        *)

Validate(c) ==
    /\ pc[c] = "execute"
    /\ LET file_path == sample[c].filePath
       IN IF ~Truthy(file_path)
          THEN /\ pc' = [pc EXCEPT ![c] = "Raised"]
               /\ ret' = [ret EXCEPT ![c] = Raised("ValueError")]
          ELSE IF ~IsStr(file_path)
          THEN /\ pc' = [pc EXCEPT ![c] = "Raised"]
               /\ ret' = [ret EXCEPT ![c] = Raised("TypeError")]
          ELSE IF ~EndsWith(file_path, DotCsv)
          THEN /\ pc' = [pc EXCEPT ![c] = "Raised"]
               /\ ret' = [ret EXCEPT ![c] = Raised("ValueError")]
          ELSE /\ pc' = [pc EXCEPT ![c] = "read_diagnosis"]
               /\ UNCHANGED ret
    /\ UNCHANGED <<self_vars, disk, call, sample, frame_vars, upload_vars, errors>>

(* execute, lines 72-74: the diagnosis table is read.  pd.read_csv raises  *)
(* for a file that is not there or cannot be parsed.                       *)
ReadDiagnosis(c) ==
    /\ pc[c] = "read_diagnosis"
    /\ \E f \in Files(disk).diagnosis :
         IF f.kind = "missing"
         THEN /\ pc' = [pc EXCEPT ![c] = "Raised"]
              /\ ret' = [ret EXCEPT ![c] = Raised("FileNotFoundError")]
              /\ UNCHANGED diagnosis_df
         ELSE IF f.kind = "unparseable"
         THEN /\ pc' = [pc EXCEPT ![c] = "Raised"]
              /\ ret' = [ret EXCEPT ![c] = Raised("ParserError")]
              /\ UNCHANGED diagnosis_df
         ELSE /\ diagnosis_df' = [diagnosis_df EXCEPT ![c] = read_csv(f)]
              /\ IF ~({"case_no", "diagnosis"} \subseteq f.columns)
                 THEN /\ pc' = [pc EXCEPT ![c] = "Aborted"]
                      /\ ret' = [ret EXCEPT ![c] = Returned(sample[c])]
                 ELSE /\ pc' = [pc EXCEPT ![c] = "read_slide"]
                      /\ UNCHANGED ret
    /\ UNCHANGED <<self_vars, disk, call, sample, slide_info_df, merged_df,
                   upload_vars, errors>>

\* the flag derived afresh from each table read
flag_per_run(flag, columns) == "thumbnail_path" \notin columns

\* lines 87-89: self.ignore_sdpc after the check of a slide table with these columns
flag_after_load(flag, columns) ==
    IF "thumbnail_path" \notin columns THEN TRUE ELSE flag

(* execute, lines 78-86: the first other file os.listdir names is read as  *)
(* the slide table (os.listdir gives the names in arbitrary order) and its *)
(* columns are checked.                                                    *)
ReadSlide(c) ==
    /\ pc[c] = "read_slide"
    /\ \E listing \in Files(disk).listings :
         IF listing = {}
         THEN /\ pc' = [pc EXCEPT ![c] = "Aborted"]
              /\ ret' = [ret EXCEPT ![c] = Returned(sample[c])]
              /\ errors' = [errors EXCEPT ![c] = @ + 1]
              /\ UNCHANGED slide_info_df
         ELSE \E f \in listing :
              IF f.kind = "unparseable"
              THEN /\ pc' = [pc EXCEPT ![c] = "Raised"]
                   /\ ret' = [ret EXCEPT ![c] = Raised("ParserError")]
                   /\ UNCHANGED <<slide_info_df, errors>>
              ELSE /\ slide_info_df' = [slide_info_df EXCEPT ![c] = read_csv(f)]
                   /\ UNCHANGED errors
                   /\ IF ~({"case_no", "slide_path"} \subseteq f.columns)
                      THEN /\ pc' = [pc EXCEPT ![c] = "Aborted"]
                           /\ ret' = [ret EXCEPT ![c] = Returned(sample[c])]
                      ELSE /\ pc' = [pc EXCEPT ![c] = "check_thumbnail"]
                           /\ UNCHANGED ret
    /\ UNCHANGED <<self_vars, disk, call, sample, diagnosis_df, merged_df,
                   upload_vars>>

(* execute, lines 87-89: a table without thumbnail_path sets the           *)
(* attribute self.ignore_sdpc; a step of its own, since other calls on the *)
(* instance can run between the read of line 84 and this assignment.       *)
CheckThumbnail(c) ==
    /\ pc[c] = "check_thumbnail"
    /\ ignore_sdpc' = [ignore_sdpc EXCEPT ![call[c].inst] =
                          flag_after_load(@, slide_info_df[c].columns)]
    /\ pc' = [pc EXCEPT ![c] = "merge"]
    /\ UNCHANGED <<kwargs, path_transformer, disk, call, sample, frame_vars,
                   upload_vars, errors, ret>>

(* execute, line 97: the inner join, outside every try.                    *)
Merge(c) ==
    /\ pc[c] = "merge"
    /\ IF MergeRaises(diagnosis_df[c], slide_info_df[c])
       THEN /\ pc' = [pc EXCEPT ![c] = "Raised"]
            /\ ret' = [ret EXCEPT ![c] = Raised("ValueError")]
            /\ UNCHANGED merged_df
       ELSE /\ pc' = [pc EXCEPT ![c] = "process"]
            /\ merged_df' = [merged_df EXCEPT ![c] =
                                merge(diagnosis_df[c], slide_info_df[c])]
            /\ UNCHANGED ret
    /\ UNCHANGED <<self_vars, disk, call, sample, diagnosis_df, slide_info_df,
                   upload_vars, errors>>

(* execute, lines 103-107: data_processing, whose exceptions are caught.   *)
Process(c) ==
    /\ pc[c] = "process"
    /\ LET r == data_processing(ignore_sdpc[call[c].inst],
                                path_transformer[call[c].inst], merged_df[c])
       IN IF r.raised
          THEN /\ pc' = [pc EXCEPT ![c] = "Aborted"]
               /\ ret' = [ret EXCEPT ![c] = Returned(sample[c])]
               /\ errors' = [errors EXCEPT ![c] = @ + 1]
               /\ UNCHANGED merged_df
          ELSE /\ pc' = [pc EXCEPT ![c] = "publish"]
               /\ merged_df' = [merged_df EXCEPT ![c] = r.value]
               /\ UNCHANGED <<ret, errors>>
    /\ UNCHANGED <<self_vars, disk, call, sample, diagnosis_df, slide_info_df,
                   upload_vars>>

\* Publish with the descriptor rewritten before the upload instead of after
PublishEager(c) ==
    /\ pc[c] = "publish"
    /\ sample' = [sample EXCEPT ![c] =
                    [@ EXCEPT !.text = to_json(merged_df[c]), !.fileType = Json]]
    /\ IF ~Truthy(sample[c].export_path) \/ ~IsStr(sample[c].export_path)
       THEN /\ pc' = [pc EXCEPT ![c] = "Aborted"]
            /\ ret' = [ret EXCEPT ![c] = Returned(sample'[c])]
            /\ errors' = [errors EXCEPT ![c] = @ + 1]
            /\ UNCHANGED upload_df
       ELSE /\ pc' = [pc EXCEPT ![c] = "insert_into_dataset"]
            /\ upload_df' = [upload_df EXCEPT ![c] =
                                [n |-> Len(merged_df[c].rows), unencodable |-> {},
                                 thumb_unencodable |-> {}]]
            /\ UNCHANGED <<ret, errors>>
    /\ UNCHANGED <<kwargs, path_transformer, ignore_sdpc, disk, call,
                   diagnosis_df, slide_info_df, merged_df, start_idx, posts>>

(* execute, lines 113-123, up to the call of insert_into_dataset: a falsy  *)
(* export_path raises ValueError and Path(export_path) raises TypeError    *)
(* for a value that is not a str, both inside the try.                     *)
Publish(c) ==
    /\ pc[c] = "publish"
    /\ LET export_path == sample[c].export_path
       IN IF ~Truthy(export_path)
          THEN /\ pc' = [pc EXCEPT ![c] = "Aborted"]
               /\ ret' = [ret EXCEPT ![c] = Returned(sample[c])]
               /\ errors' = [errors EXCEPT ![c] = @ + 2]
               /\ UNCHANGED upload_df
          ELSE IF ~IsStr(export_path)
          THEN /\ pc' = [pc EXCEPT ![c] = "Aborted"]
               /\ ret' = [ret EXCEPT ![c] = Returned(sample[c])]
               /\ errors' = [errors EXCEPT ![c] = @ + 1]
               /\ UNCHANGED upload_df
          ELSE /\ pc' = [pc EXCEPT ![c] = "insert_into_dataset"]
               /\ upload_df' = [upload_df EXCEPT ![c] = describe(merged_df[c])]
               /\ UNCHANGED <<ret, errors>>
    /\ UNCHANGED <<self_vars, disk, call, sample, frame_vars, start_idx, posts>>

---------------------------------------------------------------------------
(* insert_into_dataset                                                     *)

\* what the caller of insert_into_dataset gets when it returns: execute
\* goes on to line 125, a direct caller gets the table
InsertReturns(c) ==
    IF call[c].method = "execute"
    THEN /\ pc' = [pc EXCEPT ![c] = "update_sample"]
         /\ UNCHANGED <<ret, errors>>
    ELSE /\ pc' = [pc EXCEPT ![c] = "Returned"]
         /\ ret' = [ret EXCEPT ![c] = Returned(upload_df[c])]
         /\ UNCHANGED errors

\* an exception leaves insert_into_dataset: execute catches it at lines
\* 121-123, logs it and returns the descriptor; a direct caller gets it
InsertRaises(c, exc) ==
    IF call[c].method = "execute"
    THEN /\ pc' = [pc EXCEPT ![c] = "Aborted"]
         /\ ret' = [ret EXCEPT ![c] = Returned(sample[c])]
         /\ errors' = [errors EXCEPT ![c] = @ + 1]
    ELSE /\ pc' = [pc EXCEPT ![c] = "Raised"]
         /\ ret' = [ret EXCEPT ![c] = Raised(exc)]
         /\ UNCHANGED errors

\* min(start_idx + BATCH_SIZE, len(merged_df))
end_idx(c) ==
    IF start_idx[c] + BATCH_SIZE < upload_df[c].n
    THEN start_idx[c] + BATCH_SIZE ELSE upload_df[c].n

\* what one httpx.post ends with when the records can be encoded: a 2xx
\* response, raise_for_status raising HTTPStatusError, another HTTPError,
\* or an exception that is no HTTPError (httpx.InvalidURL, say)
PostOutcomes == {"2xx", "HTTPStatusError", "HTTPError", "Exception"}

(* lines 217-222: the loop is entered; a table with no row has no batch.   *)
InsertEnter(c) ==
    /\ pc[c] = "insert_into_dataset"
    /\ start_idx' = [start_idx EXCEPT ![c] = 0]
    /\ IF upload_df[c].n > 0
       THEN /\ pc' = [pc EXCEPT ![c] = "post_slide"]
            /\ UNCHANGED <<ret, errors>>
       ELSE InsertReturns(c)
    /\ UNCHANGED <<self_vars, disk, call, sample, frame_vars, upload_df, posts>>

(* lines 223-251: the records of one batch are built and the slide         *)
(* records posted.  Every handler builds its log line with json.dumps of   *)
(* the records, so when json cannot encode them the TypeError of           *)
(* httpx.post is raised again inside the handler and leaves the method.    *)
PostSlide(c) ==
    /\ pc[c] = "post_slide"
    /\ posts' = [posts EXCEPT ![c] = Append(@, <<"slide", start_idx[c], end_idx(c)>>)]
    /\ IF \E i \in upload_df[c].unencodable : start_idx[c] <= i /\ i < end_idx(c)
       THEN InsertRaises(c, "TypeError")
       ELSE \E outcome \in PostOutcomes :
              /\ pc' = [pc EXCEPT ![c] = "post_thumb"]
              /\ errors' = [errors EXCEPT ![c] = IF outcome = "2xx" THEN @ ELSE @ + 1]
              /\ UNCHANGED ret
    /\ UNCHANGED <<self_vars, disk, call, sample, frame_vars, upload_df, start_idx>>

(* lines 253-267 and the loop's step: the thumbnail records are posted,    *)
(* then the next batch starts or the method returns the table.             *)
PostThumb(c) ==
    /\ pc[c] = "post_thumb"
    /\ posts' = [posts EXCEPT ![c] = Append(@, <<"thumb", start_idx[c], end_idx(c)>>)]
    /\ IF \E i \in upload_df[c].thumb_unencodable : start_idx[c] <= i /\ i < end_idx(c)
       THEN /\ InsertRaises(c, "TypeError")
            /\ UNCHANGED start_idx
       ELSE \E outcome \in PostOutcomes :
              IF start_idx[c] + BATCH_SIZE < upload_df[c].n
              THEN /\ start_idx' = [start_idx EXCEPT ![c] = @ + BATCH_SIZE]
                   /\ pc' = [pc EXCEPT ![c] = "post_slide"]
                   /\ errors' = [errors EXCEPT ![c] = IF outcome = "2xx" THEN @ ELSE @ + 1]
                   /\ UNCHANGED ret
              ELSE /\ UNCHANGED start_idx
                   /\ IF call[c].method = "execute"
                      THEN /\ pc' = [pc EXCEPT ![c] = "update_sample"]
                           /\ UNCHANGED ret
                      ELSE /\ pc' = [pc EXCEPT ![c] = "Returned"]
                           /\ ret' = [ret EXCEPT ![c] = Returned(upload_df[c])]
                   /\ errors' = [errors EXCEPT ![c] = IF outcome = "2xx" THEN @ ELSE @ + 1]
    /\ UNCHANGED <<self_vars, disk, call, sample, frame_vars, upload_df>>

---------------------------------------------------------------------------
(* execute, lines 125-135: the descriptor is rewritten and returned.       *)

update_sample(s, df) ==
    [s EXCEPT !.text = to_json(df), !.fileName = OutName, !.fileType = Json]

UpdateSample(c) ==
    /\ pc[c] = "update_sample"
    /\ sample' = [sample EXCEPT ![c] = update_sample(@, merged_df[c])]
    /\ ret' = [ret EXCEPT ![c] = Returned(sample'[c])]
    /\ pc' = [pc EXCEPT ![c] = "Done"]
    /\ UNCHANGED <<self_vars, disk, call, frame_vars, upload_vars, errors>>

---------------------------------------------------------------------------
(* Direct calls of transform_path and data_processing.                     *)

TransformPathCall(c) ==
    /\ pc[c] = "transform_path"
    /\ ret' = [ret EXCEPT ![c] =
                  Returned(transform_path(path_transformer[call[c].inst], call[c].arg))]
    /\ pc' = [pc EXCEPT ![c] = "Returned"]
    /\ UNCHANGED <<self_vars, disk, call, sample, frame_vars, upload_vars, errors>>

DataProcessingCall(c) ==
    /\ pc[c] = "data_processing"
    /\ LET r == data_processing(ignore_sdpc[call[c].inst],
                                path_transformer[call[c].inst], call[c].arg)
       IN /\ ret' = [ret EXCEPT ![c] = r]
          /\ pc' = [pc EXCEPT ![c] = IF r.raised THEN "Raised" ELSE "Returned"]
    /\ UNCHANGED <<self_vars, disk, call, sample, frame_vars, upload_vars, errors>>

---------------------------------------------------------------------------
(* Inputs.                                                                 *)

\* characters of the enumerated pathTransformer values and paths
RuleChars == {"a", "/", ":", " ", "\t"}
PathChars == {"a", "/", "."}

\* pathTransformer as given to the constructor; None: not given
Configs ==
    SeqsUpTo(RuleChars, MaxRuleLen)
        \cup {None, KeepMarker, DefaultPathTransformer, ExamplePrefixRule}

KnownPaths ==
    SeqsUpTo(PathChars, MaxPathLen) \cup {SvsPath, StoragePath, AbsPath, SdpcDir}

\* descriptors as src/main.py builds them, and malformed ones
Samples ==
    {[filePath |-> fp, export_path |-> ep, text |-> <<>>,
      fileName |-> DiagName, fileType |-> Csv] :
        fp \in {None, <<>>, NotAStr, TxtFilePath, CsvFilePath},
        ep \in {None, NotAStr, OutPath}}

\* cells of a table handed directly to data_processing
ProcDomain ==
    [case_no        |-> {<<"1">>},
     slide_path     |-> {NaN, <<>>, SvsPath, SdpcPath, SdpcDir},
     thumbnail_path |-> {NaN, <<>>, ThumbPng}]

ProcColumnSets ==
    {{"slide_path", "thumbnail_path"}, {"case_no", "slide_path", "thumbnail_path"},
     {"case_no", "slide_path"}}

\* pd.DataFrame of rows with a RangeIndex; a column of NaN alone is float64
Frame(cols, rows) ==
    [columns |-> cols,
     floats  |-> {c \in cols : rows # <<>> /\ \A k \in 1..Len(rows) : rows[k][c] = NaN},
     index   |-> [k \in 1..Len(rows) |-> k - 1],
     rows    |-> rows]

ProcFrames ==
    UNION {{Frame(cols, rows) :
                rows \in SeqsUpTo(RowsOver(cols, ProcDomain), MaxProcRows)} :
           cols \in ProcColumnSets}

ProcConfigs == {None, <<>>, <<" ">>, <<"\t">>, KeepMarker, ExamplePrefixRule}

\* tables handed directly to insert_into_dataset: any length, at most one
\* row with a cell json cannot encode, at the start of a batch
UploadTables ==
    {[n |-> n, unencodable |-> bad, thumb_unencodable |-> tbad] :
        n \in 0..MaxRows,
        bad \in {{}} \cup {{i} : i \in {0, BATCH_SIZE, 2 * BATCH_SIZE}},
        tbad \in {{}} \cup {{i} : i \in {0, BATCH_SIZE, 2 * BATCH_SIZE}}}

Idle == [method |-> "idle", inst |-> "op1", arg |-> None]

---------------------------------------------------------------------------
(* Initial states and specifications.                                      *)

\* every instance constructed with the options kw[i]
Constructed(kw) ==
    /\ kwargs = kw
    /\ path_transformer = [i \in Insts |-> init_path_transformer(kw[i])]
    /\ ignore_sdpc = [i \in Insts |-> init_ignore_sdpc(kw[i])]

\* the calls cl about to start
Called(cl) ==
    /\ call = cl
    /\ pc = [c \in Calls |-> cl[c].method]
    /\ sample = [c \in Calls |->
                    IF cl[c].method = "execute" THEN cl[c].arg ELSE NoSample]
    /\ diagnosis_df = [c \in Calls |-> NoFrame]
    /\ slide_info_df = [c \in Calls |-> NoFrame]
    /\ merged_df = [c \in Calls |-> NoFrame]
    /\ upload_df = [c \in Calls |->
                    IF cl[c].method = "insert_into_dataset" THEN cl[c].arg
                    ELSE NoUpload]
    /\ start_idx = [c \in Calls |-> 0]
    /\ posts = [c \in Calls |-> <<>>]
    /\ errors = [c \in Calls |-> 0]
    /\ ret = [c \in Calls |-> NoRet]

OneCall(m, a) == [c \in Calls |-> IF c = "c1" THEN [method |-> m, inst |-> "op1", arg |-> a] ELSE Idle]

\* one call of transform_path
InitPath ==
    /\ \E cfg \in Configs :
         Constructed([i \in Insts |-> [pathTransformer |-> cfg, ignoreSdpc |-> FALSE]])
    /\ \E p \in KnownPaths : Called(OneCall("transform_path", p))
    /\ disk = "none"

NextPath == \E c \in Calls : TransformPathCall(c)

SpecPath == InitPath /\ [][NextPath]_vars

\* one call of data_processing
InitProc ==
    /\ \E cfg \in ProcConfigs, b \in BOOLEAN :
         Constructed([i \in Insts |-> [pathTransformer |-> cfg, ignoreSdpc |-> b]])
    /\ \E df \in ProcFrames : Called(OneCall("data_processing", df))
    /\ disk = "none"

NextProc == \E c \in Calls : DataProcessingCall(c)

SpecProc == InitProc /\ [][NextProc]_vars

\* one call of insert_into_dataset
InitUpload ==
    /\ Constructed([i \in Insts |-> [pathTransformer |-> None, ignoreSdpc |-> FALSE]])
    /\ \E t \in UploadTables :
         /\ t.thumb_unencodable \subseteq t.unencodable
         /\ \A i \in t.unencodable : i < t.n
         /\ Called(OneCall("insert_into_dataset", t))
    /\ disk = "none"

NextUpload == \E c \in Calls : InsertEnter(c) \/ PostSlide(c) \/ PostThumb(c)

SpecUpload == InitUpload /\ [][NextUpload]_vars

\* one call of execute
Init ==
    /\ \E b \in BOOLEAN :
         Constructed([i \in Insts |-> [pathTransformer |-> None, ignoreSdpc |-> b]])
    /\ \E s \in Samples : Called(OneCall("execute", s))
    /\ disk = "any"

Next ==
    \E c \in Calls :
        \/ Validate(c)
        \/ ReadDiagnosis(c)
        \/ ReadSlide(c)
        \/ CheckThumbnail(c)
        \/ Merge(c)
        \/ Process(c)
        \/ Publish(c)
        \/ InsertEnter(c)
        \/ PostSlide(c)
        \/ PostThumb(c)
        \/ UpdateSample(c)

Spec == Init /\ [][Next]_vars

\* two calls of execute, on one instance or on two, each on a well-formed
\* descriptor and directory
ConcSample ==
    [filePath |-> CsvFilePath, export_path |-> OutPath, text |-> <<>>,
     fileName |-> DiagName, fileType |-> Csv]

InitConc ==
    /\ \E b \in BOOLEAN :
         Constructed([i \in Insts |-> [pathTransformer |-> None, ignoreSdpc |-> b]])
    /\ \E i \in Insts :
         Called([c \in Calls |->
                    [method |-> "execute", inst |-> IF c = "c1" THEN "op1" ELSE i,
                     arg |-> ConcSample]])
    /\ disk = "well_formed"

SpecConc == InitConc /\ [][Next]_vars

---------------------------------------------------------------------------
(* Properties.                                                             *)

Min(a, b) == IF a < b THEN a ELSE b

\* ceil(n / BATCH_SIZE)
Batches(n) == (n + BATCH_SIZE - 1) \div BATCH_SIZE

\* the POSTs of a table of n rows: per batch, in ascending order, the slide
\* records and then the thumbnail records
ExpectedPosts(n) ==
    [j \in 1..(2 * Batches(n)) |->
        LET k == (j - 1) \div 2
        IN <<IF j % 2 = 1 THEN "slide" ELSE "thumb",
             k * BATCH_SIZE, Min((k + 1) * BATCH_SIZE, n)>>]

IsSdpc(v) == IsStr(v) /\ EndsWith(v, DotSdpc)
IsBlank(v) == v = NaN \/ v = None \/ v = <<>>

\* filePath as lines 56-62 refuse it
Malformed(s) ==
    \/ ~Truthy(s.filePath)
    \/ ~IsStr(s.filePath)
    \/ ~EndsWith(s.filePath, DotCsv)

\* C1: a call of execute that returns without completing the publish stage
\* returns the descriptor it was given, every field unchanged; the descriptor
\* differs from the one given only once insert_into_dataset has returned
\* (every batch posted), and then only in text, fileName and fileType.
C1_AbortReturnsInput ==
    \A c \in Calls : call[c].method = "execute" =>
        /\ pc[c] = "Aborted" => (~ret[c].raised /\ ret[c].value = call[c].arg)
        /\ sample[c] # call[c].arg =>
              /\ pc[c] = "Done"
              /\ posts[c] = ExpectedPosts(Len(merged_df[c].rows))
              /\ sample[c].filePath = call[c].arg.filePath
              /\ sample[c].export_path = call[c].arg.export_path

\* a call aborted in the publish stage for want of export_path (the only
\* place that logs two errors), after data_processing succeeded
C1_Witness ==
    \E c \in Calls :
        /\ call[c].method = "execute"
        /\ pc[c] = "Aborted"
        /\ errors[c] = 2
        /\ merged_df[c].rows # <<>>

\* C2: execute raises only for a malformed filePath (or a file that does not
\* exist); a validated descriptor naming an existing file never raises.
C2_RaisesOnlyWhenMalformed ==
    \A c \in Calls :
        (call[c].method = "execute" /\ pc[c] = "Raised") =>
            (Malformed(call[c].arg) \/ ret[c].exc = "FileNotFoundError")

\* C3: no error of an upload attempt leaves insert_into_dataset.
C3_UploadNeverRaises ==
    \A c \in Calls :
        call[c].method = "insert_into_dataset" => pc[c] # "Raised"

\* C4: when insert_into_dataset is over, it has made exactly the POSTs of
\* ceil(N/1000) contiguous batches, slide then thumbnail, each once,
\* whatever the earlier attempts ended with.
C4_EveryBatchPosted ==
    \A c \in Calls :
        (call[c].method = "insert_into_dataset" /\ pc[c] \in Terminal) =>
            posts[c] = ExpectedPosts(upload_df[c].n)

\* the row of the table given to data_processing that carries label l
InputRow(c, l) == call[c].arg.rows[l + 1]

Labels(df) == {df.index[k] : k \in 1..Len(df.index)}

ProcReturned(c) ==
    /\ call[c].method = "data_processing"
    /\ pc[c] = "Returned"

\* C5 as stated: the output of data_processing holds no row whose slide_path
\* is null or empty; with ignore_sdpc no row whose slide_path ends in .sdpc;
\* without it a row whose slide_path ends in .sdpc is in the output iff its
\* thumbnail_path is neither null nor empty; every row with a non-empty
\* slide_path not ending in .sdpc is kept.
C5_AsStated ==
    \A c \in Calls : ProcReturned(c) =>
        LET in == call[c].arg
            out == ret[c].value
            flag == ignore_sdpc[call[c].inst]
        IN /\ \A k \in 1..Len(out.rows) :
                /\ ~IsBlank(out.rows[k]["slide_path"])
                /\ flag => ~IsSdpc(out.rows[k]["slide_path"])
           /\ \A k \in 1..Len(in.rows) :
                LET v == in.rows[k]["slide_path"]
                IN /\ (~flag /\ IsSdpc(v)) =>
                        ((in.index[k] \in Labels(out))
                            <=> ~IsBlank(in.rows[k]["thumbnail_path"]))
                   /\ (~IsBlank(v) /\ ~IsSdpc(v)) => in.index[k] \in Labels(out)

\* C5, amended: the rows of the output are exactly the rows of the input
\* whose slide_path, as given in the input, is neither null nor empty and,
\* with ignore_sdpc, does not end in .sdpc, or, without it, does not end in
\* .sdpc unless thumbnail_path is neither null nor empty; no slide_path of
\* the output is null or empty.
C5_FilterOnInputPaths ==
    \A c \in Calls : ProcReturned(c) =>
        LET in == call[c].arg
            out == ret[c].value
            flag == ignore_sdpc[call[c].inst]
        IN /\ \A k \in 1..Len(out.rows) : ~IsBlank(out.rows[k]["slide_path"])
           /\ Labels(out) =
                {in.index[k] : k \in
                    {j \in 1..Len(in.rows) :
                        LET v == in.rows[j]["slide_path"]
                        IN /\ ~IsBlank(v)
                           /\ flag => ~IsSdpc(v)
                           /\ (~flag /\ IsSdpc(v)) =>
                                 ~IsBlank(in.rows[j]["thumbnail_path"])}}

\* without ignore_sdpc, an SDPC row with a thumbnail is kept and another
\* row is dropped
C5_Witness ==
    \E c \in Calls :
        /\ ProcReturned(c)
        /\ ~ignore_sdpc[call[c].inst]
        /\ Len(ret[c].value.rows) < Len(call[c].arg.rows)
        /\ \E l \in Labels(ret[c].value) : IsSdpc(InputRow(c, l)["slide_path"])

\* C6: a run on an instance constructed with ignoreSdpc=false whose slide
\* table has case_no and slide_path but no thumbnail_path sets the flag and
\* completes, its output being the merged table without the rows whose
\* slide_path ends in .sdpc.
C6_RunWithoutThumbnailColumnCompletes ==
    \A c \in Calls :
        (/\ call[c].method = "execute"
         /\ pc[c] \in {"Done", "Aborted"}
         /\ ~kwargs[call[c].inst].ignoreSdpc
         /\ slide_info_df[c].columns = {"case_no", "slide_path"}
         /\ "diagnosis" \in diagnosis_df[c].columns
         /\ Truthy(call[c].arg.export_path) /\ IsStr(call[c].arg.export_path)
         /\ \E k \in 1..Len(merge(diagnosis_df[c], slide_info_df[c]).rows) :
              LET v == merge(diagnosis_df[c], slide_info_df[c]).rows[k]["slide_path"]
              IN ~IsBlank(v) /\ ~IsSdpc(v))
        => /\ ignore_sdpc[call[c].inst]
           /\ pc[c] = "Done"
           /\ Len(merged_df[c].rows) =
                Cardinality({k \in 1..Len(merge(diagnosis_df[c], slide_info_df[c]).rows) :
                    LET v == merge(diagnosis_df[c], slide_info_df[c]).rows[k]["slide_path"]
                    IN ~IsBlank(v) /\ ~IsSdpc(v)})

\* pathTransformer as configured, None being the default
Configured(i) ==
    IF kwargs[i].pathTransformer = None THEN DefaultPathTransformer
    ELSE kwargs[i].pathTransformer

PathReturned(c) ==
    /\ call[c].method = "transform_path"
    /\ pc[c] = "Returned"

\* C7: with pathTransformer = 'old:new' (split on the first ':'), a path
\* that starts with old comes back with its first occurrence of old replaced
\* by new as configured, normalized as a path; any other path comes back
\* unchanged.
C7_PrefixSubstitution ==
    \A c \in Calls :
        (PathReturned(c) /\ Contains(Configured(call[c].inst), <<":">>)) =>
            LET rule == Configured(call[c].inst)
                old == SplitFirst(rule, <<":">>)[1]
                new == SplitFirst(rule, <<":">>)[2]
                p == call[c].arg
            IN ret[c].value =
                 IF StartsWith(p, old)
                 THEN PathStr(Path(ReplaceFirst(p, old, new)))
                 ELSE p

\* C8: in identity mode (pathTransformer blank after trimming, or the
\* "leave unchanged" marker) every path comes back unchanged.
C8_IdentityMode ==
    \A c \in Calls :
        (/\ PathReturned(c)
         /\ \/ Strip(Configured(call[c].inst)) = <<>>
            \/ Configured(call[c].inst) = KeepMarker)
        => ret[c].value = call[c].arg

\* C9: in the output of data_processing every slide_path is the input's
\* rewritten by transform_path, and thumbnail_path is the input's rewritten
\* by transform_path when that is neither null nor blank, and the empty
\* string when it is null or the empty string.
C9_PathsRewritten ==
    \A c \in Calls : ProcReturned(c) =>
        LET out == ret[c].value
            pt == path_transformer[call[c].inst]
        IN \A k \in 1..Len(out.rows) :
             LET in == InputRow(c, out.index[k])
             IN /\ out.rows[k]["slide_path"] = transform_path(pt, in["slide_path"])
                /\ out.rows[k]["thumbnail_path"] =
                     IF IsBlank(in["thumbnail_path"]) THEN <<>>
                     ELSE transform_path(pt, in["thumbnail_path"])

\* a call of execute has read (line 84) a slide table that has case_no and
\* slide_path and no thumbnail_path
LoadedWithoutThumbnail(c) ==
    /\ call[c].method = "execute"
    /\ slide_info_df[c].columns = {"case_no", "slide_path"}

\* such a call has gone past the assignment of line 89
AssignedFlag(c) == LoadedWithoutThumbnail(c) /\ pc[c] # "check_thumbnail"

LoadedOn(i) == \E d \in Calls : call[d].inst = i /\ LoadedWithoutThumbnail(d)

FlagSetOn(i) == \E d \in Calls : call[d].inst = i /\ AssignedFlag(d)

\* call c runs data_processing in this step
Filters(c) == pc[c] = "process" /\ pc'[c] # "process"

\* C10 as stated: execute only ever sets the flag, to true; once a run on an
\* instance has loaded a slide table without thumbnail_path the flag of that
\* instance is true, and every run on it that filters from then on drops
\* every row whose slide_path ends in .sdpc, thumbnail or not.
C10_AsStated ==
    /\ [](\A i \in Insts : LoadedOn(i) => ignore_sdpc[i])
    /\ [][\A i \in Insts : ignore_sdpc[i] => ignore_sdpc'[i]]_vars
    /\ [][\A c \in Calls : (Filters(c) /\ pc'[c] = "publish") =>
            (LoadedOn(call[c].inst) =>
                \A k \in 1..Len(merged_df[c].rows) :
                    IsSdpc(merged_df[c].rows[k]["slide_path"]) =>
                        merged_df[c].index[k] \notin Labels(merged_df'[c]))]_vars

\* C10, amended: execute only ever sets the flag of its own instance, to
\* true, and only at line 89; once a run on an instance has executed that
\* assignment (it follows the read of a slide table without thumbnail_path,
\* not in one step with it) the flag of the instance stays true and every
\* run on it that filters from then on drops every row whose slide_path
\* ends in .sdpc, thumbnail or not; until then, and on any other instance,
\* a run on an instance constructed with ignoreSdpc=false keeps the SDPC
\* rows that have a thumbnail, also while another run on the instance has
\* read such a table and not yet assigned.
C10_FlagIsInstanceState ==
    /\ [](\A i \in Insts : FlagSetOn(i) => ignore_sdpc[i])
    /\ [][\A i \in Insts :
            /\ ignore_sdpc[i] => ignore_sdpc'[i]
            /\ ignore_sdpc'[i] # ignore_sdpc[i] =>
                 \E c \in Calls :
                    /\ call[c].inst = i
                    /\ pc[c] = "check_thumbnail"
                    /\ LoadedWithoutThumbnail(c)]_vars
    /\ [][\A c \in Calls : (Filters(c) /\ pc'[c] = "publish") =>
            LET before == merged_df[c]
                after == merged_df'[c]
                i == call[c].inst
            IN /\ FlagSetOn(i) =>
                    \A k \in 1..Len(before.rows) :
                        IsSdpc(before.rows[k]["slide_path"]) =>
                            before.index[k] \notin Labels(after)
               /\ (~FlagSetOn(i) /\ ~kwargs[i].ignoreSdpc) =>
                    \A k \in 1..Len(before.rows) :
                        (/\ IsSdpc(before.rows[k]["slide_path"])
                         /\ ~IsBlank(before.rows[k]["thumbnail_path"]))
                        => before.index[k] \in Labels(after)]_vars

\* on an instance constructed with ignoreSdpc=false, a run whose own slide
\* table has a thumbnail_path column has dropped an SDPC row with a
\* thumbnail, and kept another row, because another run on the instance had
\* loaded a table without the column
C10_Witness ==
    \E c \in Calls, d \in Calls :
        /\ c # d
        /\ call[c].inst = call[d].inst
        /\ ~kwargs[call[c].inst].ignoreSdpc
        /\ LoadedWithoutThumbnail(d)
        /\ call[c].method = "execute"
        /\ pc[c] = "Done"
        /\ "thumbnail_path" \in slide_info_df[c].columns
        /\ \E k \in 1..Len(slide_info_df[c].rows) :
             /\ IsSdpc(slide_info_df[c].rows[k]["slide_path"])
             /\ ~IsBlank(slide_info_df[c].rows[k]["thumbnail_path"])
        /\ \A k \in 1..Len(merged_df[c].rows) :
             ~IsSdpc(merged_df[c].rows[k]["slide_path"])

====
